---------------------------- MODULE Spec2Model ----------------------------
(***************************************************************************)
(* Jacobi iteration for the Poisson problem on distributed memory.         *)
(*                                                                         *)
(* The 1D solver (src/src/C/mpi/jacobi.c) and the 2D solver               *)
(* (src/unnamed/part_000) are modelled as one sequential process per MPI   *)
(* rank, the MPI library as the message store between them: a non-blocking *)
(* send is a posted request whose buffer the library reads when it         *)
(* transfers the message (Deliver), a blocking receive waits for the       *)
(* transferred message, the all-reduce returns once every rank has         *)
(* contributed.  A run is of one variant, chosen in Init.                  *)
(*                                                                         *)
(* Doubles are fixed-point integers (value * Scale).  Storage the program  *)
(* reads without having written it (the sweep counter N, the cells of the  *)
(* work arrays the initialisation loop does not reach) holds an arbitrary  *)
(* value, chosen in Init.                                                  *)
(***************************************************************************)
EXTENDS Integers, Sequences, FiniteSets, TLC

\* ------------------------------------------------------------------ bounds

\* Largest number of MPI ranks of a run of the solver.
MaxProcs == 2

\* Largest number of interior points read by rank 0.
MaxPoints == 3

\* Largest iteration cap of a run (the program's cap is 10000).
MaxCap == 2

\* Largest number of ranks and of interior points the partition is
\* computed for on its own.
MaxPartProcs == 4

MaxPartPoints == 5

\* Fixed-point scale of the doubles: the integer v stands for v / Scale.
Scale == 1000

\* Bit patterns an unwritten storage cell may hold, as fixed-point values.
Garbage == {0, 2 * Scale}

\* --------------------------------------------------------------- arithmetic

Min(x, y) == IF x <= y THEN x ELSE y

fmax(x, y) == IF x >= y THEN x ELSE y

fabs(x) == IF x >= 0 THEN x ELSE -x

\* Fixed-point product.
Mul(x, y) == (x * y) \div Scale

\* exp(x), by its Taylor polynomial of degree 3 in fixed point.
exp(x) == Scale + x + Mul(x, x) \div 2 + Mul(Mul(x, x), x) \div 6

pi == 3142

\* The argument of sin and cos brought into [-pi, pi).
Reduce(x) == ((x + pi) % (2 * pi)) - pi

\* The term of the Taylor series that follows term t: t * x^2 / d.
Term(t, x, d) == Mul(Mul(t, x), x) \div d

\* sin(x) and cos(x), by their Taylor polynomials in fixed point.
sin(x) ==
    LET r == Reduce(x)
        t3 == Term(r, r, 6)
        t5 == Term(t3, r, 20)
        t7 == Term(t5, r, 42)
        t9 == Term(t7, r, 72)
    IN  r - t3 + t5 - t7 + t9

cos(x) ==
    LET r == Reduce(x)
        t2 == Term(Scale, r, 2)
        t4 == Term(t2, r, 12)
        t6 == Term(t4, r, 30)
        t8 == Term(t6, r, 56)
    IN  Scale - t2 + t4 - t6 + t8

\* ------------------------------------------------------------------ state

VARIABLES
    variant,          \* "1D": jacobi.c, "2D": the 2D solver
    num_procs,        \* MPI_Comm_size
    num_points,       \* interior points per dimension
    MAX_ITERATIONS,   \* iteration cap
    junk,             \* junk[rank]: what the rank's unwritten storage holds
    range,            \* range[rank]: <<start_index, end_index>> of the rank
    pc,               \* pc[rank]: the statement rank executes next
    N,                \* N[rank]: sweep counter
    u,                \* u[rank]: current iterate
    u_old,            \* u_old[rank]: previous iterate
    f,                \* f[rank]: right hand side
    buffer,           \* 2D: buffer[rank]
    send_buffer,      \* 2D: send_buffer[rank]
    du_max_proc,      \* local delta of the sweep
    du_max,           \* global delta of the sweep
    pending,          \* MPI_Isend requests whose buffer is not yet read
    mailbox,          \* messages transferred and not yet received
    contrib,          \* all-reduce: values contributed to the open round
    ready,            \* all-reduce: result of a closed round, per rank
    arrived,          \* ranks that entered MPI_Barrier
    sweep,            \* history: loop iterations rank has started
    N0,               \* history: the value N held when the loop was reached
    hits,             \* history: a sweep of the rank met the tolerance
    reports,          \* times the failure report was printed
    files             \* ranks that wrote their output file

\* What a run never changes.
conf == <<variant, num_procs, num_points, MAX_ITERATIONS, junk, range, N0>>

vars == <<conf, pc, N, u, u_old, f, buffer, send_buffer, du_max_proc,
          du_max, pending, mailbox, contrib, ready, arrived, sweep, hits,
          reports, files>>

Ranks == 0 .. num_procs - 1

None == 0 - 1

\* ------------------------------------------------------ problem parameters

alpha == 0

beta == 3 * Scale

a == 0

b == IF variant = "1D" THEN 1 * Scale ELSE pi

dx == (b - a) \div (num_points + 1)

dy == dx

\* pow(dx, 2)
dx2 == Mul(dx, dx)

tolerance == dx2 \div 10

\* -------------------------------------------------------------- partition

PointsPerProc(n, p) == (n + p - 1) \div p

StartIndex(n, p, rank) == rank * PointsPerProc(n, p) + 1

EndIndex(n, p, rank) == Min((rank + 1) * PointsPerProc(n, p), n)

points_per_proc == PointsPerProc(num_points, num_procs)

start_index(rank) == StartIndex(num_points, num_procs, rank)

end_index(rank) == EndIndex(num_points, num_procs, rank)

\* 2D: rank_num_points = end_index - start_index + 1
rank_num_points(rank) == end_index(rank) - start_index(rank) + 1

\* 1D: the work arrays hold points_per_proc + 2 doubles.
Cells == 0 .. points_per_proc + 1

Allocated(i) == i \in Cells

\* 1D: the cell of u_old whose address is handed to the send to the left,
\* and to the receive from the left.
LeftCell(rank) == 0

\* 1D: the cell of u_old whose address is handed to the send to the right,
\* and to the receive from the right.
RightCell(rank) == end_index(rank) + 1

\* 1D: the addresses &u_old[i] the rank uses.  RightCell may lie past the
\* allocation: the double stored there is kept like any other.
Addresses(rank) == Cells \cup {LeftCell(rank), RightCell(rank)}

\* 2D: the work arrays hold rank_num_points + 2 rows of rank_num_points + 2
\* doubles, buffer holds rank_num_points + 2 doubles.
Cells2D(rank) ==
    (0 .. rank_num_points(rank) + 1) \X (0 .. rank_num_points(rank) + 1)

BufferCells(rank) == 0 .. rank_num_points(rank) + 1

\* A load from arr[i][j], or arr[i]: outside the allocation it yields g.
Rd(arr, c, g) == IF c \in DOMAIN arr THEN arr[c] ELSE g

\* A store to arr[i][j], or arr[i]: outside the allocation it does not
\* reach the array.
Wr(arr, c, v) == IF c \in DOMAIN arr THEN [arr EXCEPT ![c] = v] ELSE arr

\* 1D: the indices the statements of the rank apply to u, u_old and f.
\* for (i = start_index; i <= end_index; ++i) { f[i] = ...; u[i] = ...; }
InitIndices(rank) == start_index(rank) .. end_index(rank)

\* u[start_index - 1] = alpha on rank 0, u[end_index + 1] = beta on the last
BoundaryIndices(rank) ==
    (IF rank = 0 THEN {start_index(rank) - 1} ELSE {})
        \cup (IF rank = num_procs - 1 THEN {end_index(rank) + 1} ELSE {})

\* for (i = 0; i < points_per_proc + 2; ++i) u_old[i] = u[i]
CopyIndices == 0 .. points_per_proc + 1

\* &u_old[0] with a left neighbour, &u_old[end_index + 1] with a right one
ExchangeIndices(rank) ==
    (IF rank > 0 THEN {LeftCell(rank)} ELSE {})
        \cup (IF rank < num_procs - 1 THEN {RightCell(rank)} ELSE {})

\* for (i = 1; i < points_per_proc + 1; ++i): u[i], f[i], u_old[i-1],
\* u_old[i], u_old[i+1]
KernelIndices ==
    UNION {{i - 1, i, i + 1} : i \in 1 .. points_per_proc}

\* --------------------------------------------------------- initialisation

\* 1D: u after the initialisation loop and the boundary assignments; a cell
\* they do not write keeps the garbage g.
InitU(rank, g) ==
    [i \in Cells |->
        IF rank = num_procs - 1 /\ i = end_index(rank) + 1 THEN beta
        ELSE IF rank = 0 /\ i = start_index(rank) - 1 THEN alpha
        ELSE IF i >= start_index(rank) /\ i <= end_index(rank)
             THEN alpha + Mul(dx * i, beta - alpha)
        ELSE g]

InitF(rank, g) ==
    [i \in Cells |->
        IF i >= start_index(rank) /\ i <= end_index(rank)
        THEN exp(dx * i)
        ELSE g]

\* 2D: u after the initialisation loop and the boundary loops (bottom, left
\* and right, top, each overwriting the ones before it).
InitU2D(rank, g) ==
    [c \in Cells2D(rank) |->
        LET i == c[1]
            j == c[2]
        IN  IF rank = num_procs - 1 /\ j = num_points + 1
            THEN -2 * sin(i * Scale + a)
            ELSE IF (i = 0 \/ i = num_points + 1) /\ j < rank_num_points(rank) + 1
            THEN 0
            ELSE IF rank = 0 /\ j = 0
            THEN 2 * sin(i * Scale + a)
            ELSE IF j < rank_num_points(rank) + 1
            THEN -20 * Scale
            ELSE g]

InitF2D(rank, g) ==
    [c \in Cells2D(rank) |->
        LET i == c[1]
            j == c[2]
            x == dx * i + a
            y == dy * (j + start_index(rank) - 1) + a
        IN  IF j < rank_num_points(rank) + 1
            THEN Mul(Mul(-20 * Scale, sin(x)), cos(3 * y))
            ELSE g]

\* 1D: N is declared and never assigned before the loop tests it: it holds
\* whatever its storage held, on each rank for itself.  The values kept are
\* those that leave the loop all its sweeps, one sweep, and none.
Indeterminate == {0, MAX_ITERATIONS - 1, MAX_ITERATIONS}

Init1D ==
    /\ variant = "1D"
    /\ pc = [r \in Ranks |-> "loop"]
    /\ N \in [Ranks -> Indeterminate]
    /\ u = [r \in Ranks |-> InitU(r, junk[r])]
    /\ u_old = [r \in Ranks |-> [i \in Addresses(r) |-> junk[r]]]
    /\ f = [r \in Ranks |-> InitF(r, junk[r])]
    /\ buffer = [r \in Ranks |-> <<>>]
    /\ send_buffer = [r \in Ranks |-> <<>>]

\* 2D: the state when the rank count is tested; N = 0 is set before the
\* loop.
Init2D ==
    /\ variant = "2D"
    /\ pc = [r \in Ranks |-> "start"]
    /\ N = [r \in Ranks |-> 0]
    /\ u = [r \in Ranks |-> InitU2D(r, junk[r])]
    /\ u_old = [r \in Ranks |-> [c \in Cells2D(r) |-> junk[r]]]
    /\ f = [r \in Ranks |-> InitF2D(r, junk[r])]
    /\ buffer = [r \in Ranks |-> [i \in BufferCells(r) |-> junk[r]]]
    /\ send_buffer = [r \in Ranks |-> [i \in 0 .. num_points + 1 |-> junk[r]]]

Init ==
    /\ num_procs \in 1 .. MaxProcs
    /\ num_points \in 1 .. MaxPoints
    /\ MAX_ITERATIONS \in 0 .. MaxCap
    /\ junk \in [Ranks -> Garbage]
    /\ range = [r \in Ranks |-> <<start_index(r), end_index(r)>>]
    /\ Init1D \/ Init2D
    /\ N0 = N
    /\ du_max_proc = junk
    /\ du_max = junk
    /\ pending = {}
    /\ mailbox = {}
    /\ contrib = [r \in Ranks |-> None]
    /\ ready = [r \in Ranks |-> None]
    /\ arrived = {}
    /\ sweep = [r \in Ranks |-> 0]
    /\ hits = [r \in Ranks |-> FALSE]
    /\ reports = 0
    /\ files = {}

\* ----------------------------------------------------------- the 1D sweep

\* while (N < MAX_ITERATIONS): the test, and the copy of u into u_old.
Copy(rank) ==
    /\ variant = "1D"
    /\ pc[rank] = "loop"
    /\ N[rank] < MAX_ITERATIONS
    /\ u_old' = [u_old EXCEPT ![rank] =
                    [i \in Addresses(rank) |->
                        IF Allocated(i) THEN u[rank][i] ELSE u_old[rank][i]]]
    /\ sweep' = [sweep EXCEPT ![rank] = @ + 1]
    /\ pc' = [pc EXCEPT ![rank] = "send_left"]
    /\ UNCHANGED <<conf, N, u, f, buffer, send_buffer, du_max_proc, du_max,
                   pending, mailbox, contrib, ready, arrived, hits, reports,
                   files>>

\* The loop test fails: the rank leaves the loop.
LoopExit(rank) ==
    /\ pc[rank] = "loop"
    /\ ~(N[rank] < MAX_ITERATIONS)
    /\ pc' = [pc EXCEPT ![rank] = "check"]
    /\ UNCHANGED <<conf, N, u, u_old, f, buffer, send_buffer, du_max_proc,
                   du_max, pending, mailbox, contrib, ready, arrived, sweep,
                   hits, reports, files>>

Request(src, dst, tag, cell) ==
    [src |-> src, dst |-> dst, tag |-> tag, cell |-> cell, sw |-> sweep[src]]

\* if (rank > 0) MPI_Isend(&u_old[0], ..., rank - 1, 1, ...)
SendLeft(rank) ==
    /\ pc[rank] = "send_left"
    /\ pending' = IF rank > 0
                  THEN pending \cup {Request(rank, rank - 1, 1, LeftCell(rank))}
                  ELSE pending
    /\ pc' = [pc EXCEPT ![rank] = "send_right"]
    /\ UNCHANGED <<conf, N, u, u_old, f, buffer, send_buffer, du_max_proc,
                   du_max, mailbox, contrib, ready, arrived, sweep, hits,
                   reports, files>>

\* The send to the right posted without the test for a right neighbour.
SendRightUnguarded(rank) ==
    /\ pc[rank] = "send_right"
    /\ pending' = pending \cup {Request(rank, rank + 1, 2, RightCell(rank))}
    /\ pc' = [pc EXCEPT ![rank] = "recv_right"]
    /\ UNCHANGED <<conf, N, u, u_old, f, buffer, send_buffer, du_max_proc,
                   du_max, mailbox, contrib, ready, arrived, sweep, hits,
                   reports, files>>

\* if (rank < num_procs - 1) MPI_Isend(&u_old[end_index + 1], ..., rank + 1, 2, ...)
SendRight(rank) ==
    /\ pc[rank] = "send_right"
    /\ pending' = IF rank < num_procs - 1
                  THEN pending \cup {Request(rank, rank + 1, 2, RightCell(rank))}
                  ELSE pending
    /\ pc' = [pc EXCEPT ![rank] = "recv_right"]
    /\ UNCHANGED <<conf, N, u, u_old, f, buffer, send_buffer, du_max_proc,
                   du_max, mailbox, contrib, ready, arrived, sweep, hits,
                   reports, files>>

\* The requests and messages of one channel are transferred and matched in
\* the order they were posted.
First(set, m) ==
    \A o \in set :
        (o.src = m.src /\ o.dst = m.dst /\ o.tag = m.tag) => o.sw >= m.sw

\* What the send buffer of request m holds.
BufferOf(m) ==
    IF variant = "1D" THEN u_old[m.src][m.cell] ELSE send_buffer[m.src]

\* The library reads the send buffer and transfers the message.  Nothing
\* in the program waits for the request, so this happens at any time after
\* the send was posted.  The 2D solver posts no receive: whether the library
\* has moved a message of it is seen by no rank, and its requests are kept
\* as posted.
Deliver(m) ==
    /\ variant = "1D"
    /\ m \in pending
    /\ First(pending, m)
    /\ mailbox' = mailbox \cup
          {[src |-> m.src, dst |-> m.dst, tag |-> m.tag, val |-> BufferOf(m),
            sw |-> m.sw]}
    /\ pending' = pending \ {m}
    /\ UNCHANGED <<conf, pc, N, u, u_old, f, buffer, send_buffer, du_max_proc,
                   du_max, contrib, ready, arrived, sweep, hits, reports,
                   files>>

\* The message MPI_Recv(..., src, tag, ...) of rank takes.
Matches(m, rank, src, tag) ==
    /\ m \in mailbox
    /\ m.dst = rank /\ m.src = src /\ m.tag = tag
    /\ First(mailbox, m)

\* if (rank < num_procs - 1) MPI_Recv(&u_old[end_index + 1], ..., rank + 1, 1, ...)
RecvRight(rank) ==
    /\ pc[rank] = "recv_right"
    /\ IF rank < num_procs - 1
       THEN \E m \in mailbox :
               /\ Matches(m, rank, rank + 1, 1)
               /\ u_old' = [u_old EXCEPT ![rank][RightCell(rank)] = m.val]
               /\ mailbox' = mailbox \ {m}
       ELSE UNCHANGED <<u_old, mailbox>>
    /\ pc' = [pc EXCEPT ![rank] = "recv_left"]
    /\ UNCHANGED <<conf, N, u, f, buffer, send_buffer, du_max_proc, du_max,
                   pending, contrib, ready, arrived, sweep, hits, reports,
                   files>>

\* if (rank > 0) MPI_Recv(&u_old[0], ..., rank - 1, 2, ...)
RecvLeft(rank) ==
    /\ pc[rank] = "recv_left"
    /\ IF rank > 0
       THEN \E m \in mailbox :
               /\ Matches(m, rank, rank - 1, 2)
               /\ u_old' = [u_old EXCEPT ![rank][LeftCell(rank)] = m.val]
               /\ mailbox' = mailbox \ {m}
       ELSE UNCHANGED <<u_old, mailbox>>
    /\ pc' = [pc EXCEPT ![rank] = "kernel"]
    /\ UNCHANGED <<conf, N, u, f, buffer, send_buffer, du_max_proc, du_max,
                   pending, contrib, ready, arrived, sweep, hits, reports,
                   files>>

\* u[i] = 0.5 * (u_old[i-1] + u_old[i+1] - pow(dx, 2) * f[i])
Stencil(prev, rhs, i) == (prev[i - 1] + prev[i + 1] - Mul(dx2, rhs[i])) \div 2

\* The sweep in place: the left neighbour is read from the array being
\* written.
RECURSIVE KernelLoopGS(_, _, _, _, _)
KernelLoopGS(i, cur, prev, rhs, du) ==
    IF ~(i < points_per_proc + 1)
    THEN [u |-> cur, du_max_proc |-> du]
    ELSE LET next == [cur EXCEPT ![i] =
                         (cur[i - 1] + prev[i + 1] - Mul(dx2, rhs[i])) \div 2]
         IN  KernelLoopGS(i + 1, next, prev, rhs,
                          fmax(du, fabs(next[i] - prev[i])))

\* for (i = 1; i < points_per_proc + 1; ++i): the update and the running
\* maximum, from i on.
RECURSIVE KernelLoop(_, _, _, _, _)
KernelLoop(i, cur, prev, rhs, du) ==
    IF ~(i < points_per_proc + 1)
    THEN [u |-> cur, du_max_proc |-> du]
    ELSE LET next == [cur EXCEPT ![i] = Stencil(prev, rhs, i)]
         IN  KernelLoop(i + 1, next, prev, rhs,
                        fmax(du, fabs(next[i] - prev[i])))

Kernel(rank) ==
    /\ variant = "1D"
    /\ pc[rank] = "kernel"
    /\ LET r == KernelLoop(1, u[rank], u_old[rank], f[rank], 0)
       IN  /\ u' = [u EXCEPT ![rank] = r.u]
           /\ du_max_proc' = [du_max_proc EXCEPT ![rank] = r.du_max_proc]
    /\ pc' = [pc EXCEPT ![rank] = "allreduce"]
    /\ UNCHANGED <<conf, N, u_old, f, buffer, send_buffer, du_max, pending,
                   mailbox, contrib, ready, arrived, sweep, hits, reports,
                   files>>

\* ----------------------------------------------------------- the 2D sweep

\* if (num_procs == 1) { cout << ...; MPI_Finalize(); return 0; }
Refuse(rank) ==
    /\ pc[rank] = "start"
    /\ pc' = [pc EXCEPT ![rank] = IF num_procs = 1 THEN "refused" ELSE "loop"]
    /\ UNCHANGED <<conf, N, u, u_old, f, buffer, send_buffer, du_max_proc,
                   du_max, pending, mailbox, contrib, ready, arrived, sweep,
                   hits, reports, files>>

\* while (N < MAX_ITERATIONS): the test, and the copy of u into u_old.
Copy2D(rank) ==
    /\ variant = "2D"
    /\ pc[rank] = "loop"
    /\ N[rank] < MAX_ITERATIONS
    /\ u_old' = [u_old EXCEPT ![rank] =
                    [c \in Cells2D(rank) |->
                        IF c[2] < rank_num_points(rank) + 2
                        THEN u[rank][c] ELSE u_old[rank][c]]]
    /\ sweep' = [sweep EXCEPT ![rank] = @ + 1]
    /\ pc' = [pc EXCEPT ![rank] = "send_up"]
    /\ UNCHANGED <<conf, N, u, f, buffer, send_buffer, du_max_proc, du_max,
                   pending, mailbox, contrib, ready, arrived, hits, reports,
                   files>>

\* if (rank < num_procs - 1): send_buffer[i] = u_old[i][rank_num_points];
\* MPI_Isend(&send_buffer, ..., rank + 1, 1, ...)
SendUp(rank) ==
    /\ pc[rank] = "send_up"
    /\ IF rank < num_procs - 1
       THEN /\ send_buffer' = [send_buffer EXCEPT ![rank] =
                  [i \in 0 .. num_points + 1 |->
                      Rd(u_old[rank], <<i, rank_num_points(rank)>>, junk[rank])]]
            /\ pending' = pending \cup
                  {Request(rank, rank + 1, 1, "send_buffer")}
       ELSE UNCHANGED <<send_buffer, pending>>
    /\ pc' = [pc EXCEPT ![rank] = "send_down"]
    /\ UNCHANGED <<conf, N, u, u_old, f, buffer, du_max_proc, du_max, mailbox,
                   contrib, ready, arrived, sweep, hits, reports, files>>

\* if (rank > 0): buffer[i] = u_old[i][1];
\* MPI_Isend(&send_buffer, ..., rank - 1, 2, ...)
SendDown(rank) ==
    /\ pc[rank] = "send_down"
    /\ IF rank > 0
       THEN /\ buffer' = [buffer EXCEPT ![rank] =
                  [i \in BufferCells(rank) |->
                      IF i < num_points + 2
                      THEN Rd(u_old[rank], <<i, 1>>, junk[rank])
                      ELSE buffer[rank][i]]]
            /\ pending' = pending \cup
                  {Request(rank, rank - 1, 2, "send_buffer")}
       ELSE UNCHANGED <<buffer, pending>>
    /\ pc' = [pc EXCEPT ![rank] = "recv_up"]
    /\ UNCHANGED <<conf, N, u, u_old, f, send_buffer, du_max_proc, du_max,
                   mailbox, contrib, ready, arrived, sweep, hits, reports,
                   files>>

\* u_old[i][j] = buffer[i] for i = 0 .. num_points + 1
FromBuffer(rank, j) ==
    [c \in Cells2D(rank) |->
        IF c[2] = j /\ c[1] < num_points + 2
        THEN Rd(buffer[rank], c[1], junk[rank])
        ELSE u_old[rank][c]]

\* if (rank < num_procs - 1): u_old[i][rank_num_points + 1] = buffer[i]
\* (the MPI_Recv is commented out)
RecvUp(rank) ==
    /\ pc[rank] = "recv_up"
    /\ u_old' = IF rank < num_procs - 1
                THEN [u_old EXCEPT ![rank] =
                         FromBuffer(rank, rank_num_points(rank) + 1)]
                ELSE u_old
    /\ pc' = [pc EXCEPT ![rank] = "recv_down"]
    /\ UNCHANGED <<conf, N, u, f, buffer, send_buffer, du_max_proc, du_max,
                   pending, mailbox, contrib, ready, arrived, sweep, hits,
                   reports, files>>

\* if (rank > 0): u_old[i][0] = buffer[i]  (the MPI_Recv is commented out)
RecvDown(rank) ==
    /\ pc[rank] = "recv_down"
    /\ u_old' = IF rank > 0
                THEN [u_old EXCEPT ![rank] = FromBuffer(rank, 0)]
                ELSE u_old
    /\ pc' = [pc EXCEPT ![rank] = "kernel"]
    /\ UNCHANGED <<conf, N, u, f, buffer, send_buffer, du_max_proc, du_max,
                   pending, mailbox, contrib, ready, arrived, sweep, hits,
                   reports, files>>

\* u[i][j] = 0.25 * (u_old[i-1][j] + u_old[i+1][j] + u_old[i][j-1]
\*                   + u_old[i][j+1] - pow(dx, 2) * f[i][j])
Stencil2D(prev, rhs, i, j, g) ==
    (Rd(prev, <<i - 1, j>>, g) + Rd(prev, <<i + 1, j>>, g)
       + Rd(prev, <<i, j - 1>>, g) + Rd(prev, <<i, j + 1>>, g)
       - Mul(dx2, Rd(rhs, <<i, j>>, g))) \div 4

\* for (i = 1; i < num_points + 1; ++i)
\*     for (j = 1; j < rank_num_points + 1; ++j): the update and the
\* running maximum, from (i, j) on; rows is rank_num_points.
RECURSIVE KernelLoop2D(_, _, _, _, _, _, _, _)
KernelLoop2D(i, j, rows, cur, prev, rhs, du, g) ==
    IF ~(i < num_points + 1)
    THEN [u |-> cur, du_max_proc |-> du]
    ELSE IF ~(j < rows + 1)
    THEN KernelLoop2D(i + 1, 1, rows, cur, prev, rhs, du, g)
    ELSE LET next == Wr(cur, <<i, j>>, Stencil2D(prev, rhs, i, j, g))
         IN  KernelLoop2D(i, j + 1, rows, next, prev, rhs,
                 fmax(du, fabs(Rd(next, <<i, j>>, g) - Rd(prev, <<i, j>>, g))),
                 g)

Kernel2D(rank) ==
    /\ variant = "2D"
    /\ pc[rank] = "kernel"
    /\ LET r == KernelLoop2D(1, 1, rank_num_points(rank), u[rank],
                             u_old[rank], f[rank], 0, junk[rank])
       IN  /\ u' = [u EXCEPT ![rank] = r.u]
           /\ du_max_proc' = [du_max_proc EXCEPT ![rank] = r.du_max_proc]
    /\ pc' = [pc EXCEPT ![rank] = "allreduce"]
    /\ UNCHANGED <<conf, N, u_old, f, buffer, send_buffer, du_max, pending,
                   mailbox, contrib, ready, arrived, sweep, hits, reports,
                   files>>

\* ------------------------------------------------- the convergence oracle

RECURSIVE MaxOver(_, _)
MaxOver(c, r) == IF r = 0 THEN c[0] ELSE fmax(c[r], MaxOver(c, r - 1))

\* A reduction that hands the rank its own value back without waiting for
\* the other ranks.
AllreduceEnterNoSync(rank) ==
    /\ pc[rank] = "allreduce"
    /\ ready' = [ready EXCEPT ![rank] = du_max_proc[rank]]
    /\ pc' = [pc EXCEPT ![rank] = "reduce_wait"]
    /\ UNCHANGED <<conf, N, u, u_old, f, buffer, send_buffer, du_max_proc,
                   du_max, pending, mailbox, contrib, arrived, sweep, hits,
                   reports, files>>

\* MPI_Allreduce(&du_max_proc, &du_max, 1, ..., MPI_MAX, ...), entered: the
\* rank contributes; the contribution that completes the round closes it
\* and makes the maximum available to every rank.
AllreduceEnter(rank) ==
    /\ pc[rank] = "allreduce"
    /\ LET c == [contrib EXCEPT ![rank] = du_max_proc[rank]]
       IN  IF \A r \in Ranks : c[r] # None
           THEN /\ ready' = [r \in Ranks |-> MaxOver(c, num_procs - 1)]
                /\ contrib' = [r \in Ranks |-> None]
           ELSE /\ contrib' = c
                /\ UNCHANGED ready
    /\ pc' = [pc EXCEPT ![rank] = "reduce_wait"]
    /\ UNCHANGED <<conf, N, u, u_old, f, buffer, send_buffer, du_max_proc,
                   du_max, pending, mailbox, arrived, sweep, hits, reports,
                   files>>

\* MPI_Allreduce returns: du_max holds the maximum of the round.
AllreduceReturn(rank) ==
    /\ pc[rank] = "reduce_wait"
    /\ ready[rank] # None
    /\ du_max' = [du_max EXCEPT ![rank] = ready[rank]]
    /\ ready' = [ready EXCEPT ![rank] = None]
    /\ hits' = [hits EXCEPT ![rank] = @ \/ ready[rank] < tolerance]
    /\ pc' = [pc EXCEPT ![rank] = "branch"]
    /\ UNCHANGED <<conf, N, u, u_old, f, buffer, send_buffer, du_max_proc,
                   pending, mailbox, contrib, arrived, sweep, reports, files>>

\* The sweep counted before the test of the tolerance.
BranchCountsFirst(rank) ==
    /\ pc[rank] = "branch"
    /\ N' = [N EXCEPT ![rank] = @ + 1]
    /\ pc' = [pc EXCEPT ![rank] =
                 IF du_max[rank] < tolerance THEN "check" ELSE "loop"]
    /\ UNCHANGED <<conf, u, u_old, f, buffer, send_buffer, du_max_proc,
                   du_max, pending, mailbox, contrib, ready, arrived, sweep,
                   hits, reports, files>>

\* if (du_max < tolerance) break; N++;
Branch(rank) ==
    /\ pc[rank] = "branch"
    /\ IF du_max[rank] < tolerance
       THEN /\ pc' = [pc EXCEPT ![rank] = "check"]
            /\ UNCHANGED N
       ELSE /\ pc' = [pc EXCEPT ![rank] = "loop"]
            /\ N' = [N EXCEPT ![rank] = @ + 1]
    /\ UNCHANGED <<conf, u, u_old, f, buffer, send_buffer, du_max_proc,
                   du_max, pending, mailbox, contrib, ready, arrived, sweep,
                   hits, reports, files>>

\* --------------------------------------------------------- after the loop

\* if (N >= MAX_ITERATIONS) { if (rank == 0) report; MPI_Finalize(); return 1; }
\* Otherwise the 1D solver goes on to MPI_Barrier, the 2D solver to its
\* output.
FailureCheck(rank) ==
    /\ pc[rank] = "check"
    /\ IF N[rank] >= MAX_ITERATIONS
       THEN /\ pc' = [pc EXCEPT ![rank] = "failed"]
            /\ reports' = IF rank = 0 THEN reports + 1 ELSE reports
       ELSE /\ pc' = [pc EXCEPT ![rank] =
                         IF variant = "1D" THEN "barrier" ELSE "output"]
            /\ UNCHANGED reports
    /\ UNCHANGED <<conf, N, u, u_old, f, buffer, send_buffer, du_max_proc,
                   du_max, pending, mailbox, contrib, ready, arrived, sweep,
                   hits, files>>

\* MPI_Barrier(MPI_COMM_WORLD), entered.
BarrierEnter(rank) ==
    /\ pc[rank] = "barrier"
    /\ arrived' = arrived \cup {rank}
    /\ pc' = [pc EXCEPT ![rank] = "barrier_wait"]
    /\ UNCHANGED <<conf, N, u, u_old, f, buffer, send_buffer, du_max_proc,
                   du_max, pending, mailbox, contrib, ready, sweep, hits,
                   reports, files>>

\* MPI_Barrier returns once every rank has entered it.
BarrierReturn(rank) ==
    /\ pc[rank] = "barrier_wait"
    /\ arrived = Ranks
    /\ pc' = [pc EXCEPT ![rank] = "output"]
    /\ UNCHANGED <<conf, N, u, u_old, f, buffer, send_buffer, du_max_proc,
                   du_max, pending, mailbox, contrib, ready, arrived, sweep,
                   hits, reports, files>>

\* The rank writes jacobi_<rank>.txt (serial_output is false), finalizes
\* and returns 0.
WriteOutput(rank) ==
    /\ pc[rank] = "output"
    /\ files' = files \cup {rank}
    /\ pc' = [pc EXCEPT ![rank] = "done"]
    /\ UNCHANGED <<conf, N, u, u_old, f, buffer, send_buffer, du_max_proc,
                   du_max, pending, mailbox, contrib, ready, arrived, sweep,
                   hits, reports>>

\* The value main returns on the rank, None while it runs.
ExitStatus(rank) ==
    CASE pc[rank] = "failed" -> 1
      [] pc[rank] \in {"done", "refused"} -> 0
      [] OTHER -> None

Next ==
    \/ \E rank \in Ranks : Copy(rank)
    \/ \E rank \in Ranks : LoopExit(rank)
    \/ \E rank \in Ranks : SendLeft(rank)
    \/ \E rank \in Ranks : SendRight(rank)
    \/ \E m \in pending : Deliver(m)
    \/ \E rank \in Ranks : RecvRight(rank)
    \/ \E rank \in Ranks : RecvLeft(rank)
    \/ \E rank \in Ranks : Kernel(rank)
    \/ \E rank \in Ranks : Refuse(rank)
    \/ \E rank \in Ranks : Copy2D(rank)
    \/ \E rank \in Ranks : SendUp(rank)
    \/ \E rank \in Ranks : SendDown(rank)
    \/ \E rank \in Ranks : RecvUp(rank)
    \/ \E rank \in Ranks : RecvDown(rank)
    \/ \E rank \in Ranks : Kernel2D(rank)
    \/ \E rank \in Ranks : AllreduceEnter(rank)
    \/ \E rank \in Ranks : AllreduceReturn(rank)
    \/ \E rank \in Ranks : Branch(rank)
    \/ \E rank \in Ranks : FailureCheck(rank)
    \/ \E rank \in Ranks : BarrierEnter(rank)
    \/ \E rank \in Ranks : BarrierReturn(rank)
    \/ \E rank \in Ranks : WriteOutput(rank)

Spec == Init /\ [][Next]_vars

\* The steps of one rank: each rank is a process of its own.
RankStep(rank) ==
    /\ rank \in Ranks
    /\ \/ Copy(rank) \/ LoopExit(rank)
       \/ SendLeft(rank) \/ SendRight(rank)
       \/ RecvRight(rank) \/ RecvLeft(rank)
       \/ Kernel(rank)
       \/ Refuse(rank) \/ Copy2D(rank)
       \/ SendUp(rank) \/ SendDown(rank)
       \/ RecvUp(rank) \/ RecvDown(rank)
       \/ Kernel2D(rank)
       \/ AllreduceEnter(rank) \/ AllreduceReturn(rank)
       \/ Branch(rank) \/ FailureCheck(rank)
       \/ BarrierEnter(rank) \/ BarrierReturn(rank)
       \/ WriteOutput(rank)

\* Fair scheduling and reliable delivery: a rank that can take a step
\* eventually takes one, and a posted message is eventually transferred.
Fairness ==
    /\ \A rank \in 0 .. MaxProcs - 1 : WF_vars(RankStep(rank))
    /\ WF_vars(\E m \in pending : Deliver(m))

FairSpec == Spec /\ Fairness

\* ------------------------------------------------- the partition, alone

\* Every rank is about to compute its range; nothing else exists yet.
InitPart ==
    /\ variant \in {"1D", "2D"}
    /\ num_procs \in 1 .. MaxPartProcs
    /\ num_points \in 1 .. MaxPartPoints
    /\ MAX_ITERATIONS = 0
    /\ junk = [r \in Ranks |-> 0]
    /\ range = [r \in Ranks |-> <<>>]
    /\ pc = [r \in Ranks |-> "partition"]
    /\ N = [r \in Ranks |-> 0]
    /\ N0 = N
    /\ u = <<>> /\ u_old = <<>> /\ f = <<>>
    /\ buffer = <<>> /\ send_buffer = <<>>
    /\ du_max_proc = <<>> /\ du_max = <<>>
    /\ pending = {} /\ mailbox = {}
    /\ contrib = <<>> /\ ready = <<>>
    /\ arrived = {}
    /\ sweep = [r \in Ranks |-> 0]
    /\ hits = [r \in Ranks |-> FALSE]
    /\ reports = 0
    /\ files = {}

\* points_per_proc = (num_points + num_procs - 1) / num_procs;
\* start_index = rank * points_per_proc + 1;
\* end_index = fmin((rank + 1) * points_per_proc, num_points);
Partition(rank) ==
    /\ pc[rank] = "partition"
    /\ range' = [range EXCEPT ![rank] = <<start_index(rank), end_index(rank)>>]
    /\ pc' = [pc EXCEPT ![rank] = "partitioned"]
    /\ UNCHANGED <<variant, num_procs, num_points, MAX_ITERATIONS, junk, N0,
                   N, u, u_old, f, buffer, send_buffer, du_max_proc, du_max,
                   pending, mailbox, contrib, ready, arrived, sweep, hits,
                   reports, files>>

NextPart == \E rank \in Ranks : Partition(rank)

SpecPart == InitPart /\ [][NextPart]_vars

\* ------------------------------------------------------------- properties

InLoopBody == {"send_left", "send_right", "recv_right", "recv_left",
               "send_up", "send_down", "recv_up", "recv_down",
               "kernel", "allreduce", "reduce_wait", "branch"}

LeftLoop == {"check", "failed", "barrier", "barrier_wait", "output", "done"}

NormalExit == {"barrier", "barrier_wait", "output", "done"}

\* The rank waits in a receive for a message from src with tag.
WaitsFor(rank, src, tag) ==
    \/ pc[rank] = "recv_right" /\ rank < num_procs - 1
                               /\ src = rank + 1 /\ tag = 1
    \/ pc[rank] = "recv_left" /\ rank > 0 /\ src = rank - 1 /\ tag = 2

\* The message a rank waits for is neither posted nor transferred, and its
\* sender has left the iteration loop: the receive never returns.
Stuck(rank) ==
    \E src \in Ranks, tag \in {1, 2} :
        /\ WaitsFor(rank, src, tag)
        /\ ~\E m \in pending \cup mailbox :
               m.src = src /\ m.dst = rank /\ m.tag = tag
        /\ pc[src] \in LeftLoop

\* C1: the halo exchange of the 1D solver never deadlocks: no rank that
\* entered the exchange is left in a blocking receive whose message can no
\* longer arrive.
C1_ExchangeNeverDeadlocks == \A rank \in Ranks : ~Stuck(rank)

\* C2: all ranks of the 1D solver make the same stop/continue decision
\* after every sweep: ranks in the same all-reduce hold the same N, no rank
\* is in a sweep that another rank left the loop before, and the ranks that
\* left the loop hold the same N and the same verdict.
C2_SameDecision ==
    variant = "1D" =>
        \A r \in Ranks, s \in Ranks :
            /\ (pc[r] \in {"allreduce", "reduce_wait", "branch"}
                  /\ pc[s] \in {"allreduce", "reduce_wait", "branch"}
                  /\ sweep[r] = sweep[s]) => N[r] = N[s]
            /\ pc[r] \in LeftLoop => sweep[s] <= sweep[r]
            /\ (pc[r] \in LeftLoop /\ pc[s] \in LeftLoop) =>
                  /\ N[r] = N[s]
                  /\ (N[r] >= MAX_ITERATIONS) = (N[s] >= MAX_ITERATIONS)

\* The ranges of all ranks are computed.
Partitioned == \A rank \in Ranks : range[rank] # <<>>

\* end_index - start_index + 1 of the rank's computed range
Size(rank) == range[rank][2] - range[rank][1] + 1

\* The interior indices of the rank's computed range.
Indices(rank) == range[rank][1] .. range[rank][2]

RECURSIVE SumTo(_, _)
SumTo(size(_), rank) ==
    IF rank < 0 THEN 0 ELSE size(rank) + SumTo(size, rank - 1)

\* C3: for every N and P the sizes end_index - start_index + 1
\* sum to N, and the ranges are contiguous, ordered by rank, pairwise
\* disjoint and cover exactly 1 .. N.
C3_SizesSumToN ==
    Partitioned =>
        /\ SumTo(Size, num_procs - 1) = num_points
        /\ range[0][1] = 1
        /\ \A r \in Ranks : r > 0 => range[r][1] = range[r - 1][2] + 1
        /\ \A r \in Ranks, s \in Ranks :
              r # s => Indices(r) \cap Indices(s) = {}
        /\ UNION {Indices(r) : r \in Ranks} = 1 .. num_points

\* Number of points the rank owns, and the cells of its arrays that hold
\* them: 1 .. Owned(rank), between the ghost cells 0 and Owned(rank) + 1.
Owned(rank) == end_index(rank) - start_index(rank) + 1

\* C4: in every sweep of the 1D solver a rank sends its lowest owned point
\* to the left and its highest owned point to the right, so that right
\* after the exchange the left ghost cell holds the highest owned
\* previous-iterate value of rank - 1 and the right ghost cell the lowest
\* one of rank + 1.
C4_GhostsHoldNeighbourPoints ==
    variant = "1D" =>
        /\ \A m \in mailbox :
              Owned(m.src) >= 1 =>
                  m.val = u_old[m.src][IF m.tag = 1 THEN 1 ELSE Owned(m.src)]
        /\ \A rank \in Ranks :
              pc[rank] = "kernel" =>
                  /\ (rank > 0 /\ Owned(rank - 1) >= 1) =>
                        u_old[rank][0] = u_old[rank - 1][Owned(rank - 1)]
                  /\ (rank < num_procs - 1 /\ Owned(rank + 1) >= 1) =>
                        u_old[rank][Owned(rank) + 1] = u_old[rank + 1][1]

\* The step stores into cell of u_old[rank]: the copy stores into every
\* allocated cell, a receive into the cell whose address it was given.
StoresInto(rank, cell) ==
    \/ pc[rank] = "loop" /\ pc'[rank] = "send_left" /\ Allocated(cell)
    \/ pc[rank] = "recv_right" /\ pc'[rank] = "recv_left"
          /\ rank < num_procs - 1 /\ cell = RightCell(rank)
    \/ pc[rank] = "recv_left" /\ pc'[rank] = "kernel"
          /\ rank > 0 /\ cell = LeftCell(rank)

\* C5: no rank of the 1D solver stores into a cell it handed to a
\* non-blocking send before that send is complete (its message
\* transferred).
C5_NoStoreIntoSendBuffer ==
    [][\A m \in pending : m \in pending' => ~StoresInto(m.src, m.cell)]_vars

\* C6: in the 1D solver the exchange of a sweep is complete before the
\* rank's kernel starts: both of its receives are satisfied and both of its
\* sends are delivered.
C6_ExchangeCompleteBeforeKernel ==
    variant = "1D" =>
        \A rank \in Ranks :
            pc[rank] = "kernel" =>
                /\ ~\E m \in pending : m.src = rank
                /\ ~\E m \in mailbox : m.dst = rank /\ m.sw = sweep[rank]

\* The rank has finished the kernel of sweep k and contributed its delta.
Contributed(rank, k) ==
    \/ sweep[rank] > k
    \/ /\ sweep[rank] = k
       /\ pc[rank] \in {"reduce_wait", "branch", "loop"} \cup LeftLoop

\* C7: the all-reduce is a barrier between sweeps: when a rank has entered
\* sweep k+1, or a send of sweep k+1 is posted or transferred, every rank
\* has finished the kernel of sweep k and contributed its local delta.
C7_AllreduceIsBarrier ==
    /\ \A rank \in Ranks :
          (sweep[rank] >= 2 /\ pc[rank] \in InLoopBody) =>
              \A s \in Ranks : Contributed(s, sweep[rank] - 1)
    /\ \A m \in pending \cup mailbox :
          m.sw >= 2 => \A s \in Ranks : Contributed(s, m.sw - 1)

\* A send of the second sweep of the 1D solver is in flight while the
\* other rank has not yet returned from the all-reduce of the first.
C7_Witness ==
    /\ variant = "1D"
    /\ num_procs >= 2
    /\ \E m \in pending \cup mailbox : m.sw = 2
    /\ \E s \in Ranks : pc[s] = "reduce_wait" /\ sweep[s] = 1

\* The cells the kernel of the rank updates.
KernelCells(rank) ==
    IF variant = "1D"
    THEN 1 .. points_per_proc
    ELSE {c \in Cells2D(rank) :
            /\ c[1] >= 1 /\ c[1] < num_points + 1
            /\ c[2] >= 1 /\ c[2] < rank_num_points(rank) + 1}

\* The value the stencil gives cell c from the previous iterate.
FromPrevious(rank, c) ==
    IF variant = "1D"
    THEN Stencil(u_old[rank], f[rank], c)
    ELSE Stencil2D(u_old[rank], f[rank], c[1], c[2], junk[rank])

Finished == {"failed", "done", "refused"}

\* C9: when the loop ends because the sweep counter reached the cap, every
\* rank takes the failure exit, no rank writes an output file and rank 0
\* prints the report exactly once; with a cap of 0 no sweep runs.
C9_CapExitOnEveryRank ==
    /\ reports <= 1
    /\ MAX_ITERATIONS = 0 => \A r \in Ranks : sweep[r] = 0
    /\ \A r \in Ranks :
          pc[r] = "failed" =>
              /\ files = {}
              /\ \A s \in Ranks : sweep[s] <= sweep[r]
    /\ ((\A r \in Ranks : pc[r] \in Finished) /\ (\E r \in Ranks : pc[r] = "failed"))
          => ((\A r \in Ranks : pc[r] = "failed") /\ reports = 1)

SerialInit ==
    [i \in 0 .. num_points + 1 |->
        IF i = 0 THEN alpha
        ELSE IF i = num_points + 1 THEN beta
        ELSE alpha + Mul(dx * i, beta - alpha)]

\* One Jacobi update of every interior point from the grid v.
SerialStep(v) ==
    [i \in 0 .. num_points + 1 |->
        IF i >= 1 /\ i <= num_points
        THEN (v[i - 1] + v[i + 1] - Mul(dx2, exp(dx * i))) \div 2
        ELSE v[i]]

\* The grid of the single-process solve after k sweeps.
RECURSIVE SerialAfter(_)
SerialAfter(k) == IF k = 0 THEN SerialInit ELSE SerialStep(SerialAfter(k - 1))

\* The largest member of a non-empty set of numbers.
MaxOf(S) == CHOOSE x \in S : \A y \in S : y <= x

\* The delta of sweep k of the single-process solve.
SerialDelta(k) ==
    MaxOf({fabs(SerialAfter(k)[i] - SerialAfter(k - 1)[i]) :
              i \in 1 .. num_points})

AfterKernel == {"allreduce", "reduce_wait", "branch"}

\* C11: the decomposed 1D solver is equivalent to the single-process
\* solve: after the kernel of every sweep each owned point of each rank
\* holds the value the single-process solve gives that point after as many
\* sweeps, the global delta is the single-process delta of that sweep (so
\* both stop at the same sweep), and the points of a rank that ended
\* converged agree with the single-process result.
C11_EquivalentToSerial ==
    variant = "1D" =>
        \A rank \in Ranks :
            /\ pc[rank] \in AfterKernel \cup NormalExit =>
                  \A g \in start_index(rank) .. end_index(rank) :
                      u[rank][g - start_index(rank) + 1]
                          = SerialAfter(sweep[rank])[g]
            /\ pc[rank] = "branch" =>
                  du_max[rank] = SerialDelta(sweep[rank])

\* C12: with one rank the 1D solver communicates nothing: no send is ever
\* posted and no message exists, the receives leave u_old the copy of u,
\* the rank holds both boundaries alpha and beta, and after each sweep u is
\* the single-process grid after as many sweeps.
C12_SingleWorkerIsSerial ==
    (variant = "1D" /\ num_procs = 1) =>
        /\ pending = {} /\ mailbox = {}
        /\ u[0][0] = alpha /\ u[0][num_points + 1] = beta
        /\ pc[0] \in {"send_left", "send_right", "recv_right", "recv_left",
                      "kernel"} =>
              /\ u[0] = SerialAfter(sweep[0] - 1)
              /\ u_old[0] = u[0]
        /\ pc[0] \in AfterKernel \cup LeftLoop => u[0] = SerialAfter(sweep[0])
        /\ pc[0] = "branch" => du_max[0] = SerialDelta(sweep[0])

\* The single rank has finished its second sweep over two points or more.
C12_Witness ==
    /\ variant = "1D" /\ num_procs = 1
    /\ num_points >= 2
    /\ pc[0] = "branch" /\ sweep[0] = 2

\* C13: with one rank the 2D solver refuses to run: it performs no sweep,
\* no exchange and no output, and it terminates in an error outcome: main
\* does not return the status of the normal exit, 0.
C13_SingleWorker2DRefuses ==
    (variant = "2D" /\ num_procs = 1) =>
        /\ pc[0] \in {"start", "refused"}
        /\ sweep[0] = 0
        /\ pending = {} /\ mailbox = {}
        /\ files = {}
        /\ pc[0] = "refused" => ExitStatus(0) # 0

\* Row j of the previous iterate of the rank, as far as it is allocated.
Row(rank, j) ==
    [i \in 0 .. num_points + 1 |-> Rd(u_old[rank], <<i, j>>, junk[rank])]

\* C14: in every sweep of the 2D solver the buffer handed to the send up
\* holds the highest owned row and the buffer handed to the send down the
\* lowest owned row; every send of the sweep to a rank is received by it
\* before its kernel; and at its kernel the upper ghost row of a rank is
\* the lowest owned row of rank + 1 and its lower ghost row the highest
\* owned row of rank - 1, both of the same sweep.
C14_RowsExchanged ==
    variant = "2D" =>
        \A rank \in Ranks :
            /\ (pc[rank] = "send_down" /\ rank < num_procs - 1) =>
                  send_buffer[rank] = Row(rank, rank_num_points(rank))
            /\ (pc[rank] = "recv_up" /\ rank > 0) =>
                  send_buffer[rank] = Row(rank, 1)
            /\ pc[rank] = "kernel" =>
                  /\ ~\E m \in pending \cup mailbox :
                         m.dst = rank /\ m.sw = sweep[rank]
                  /\ rank < num_procs - 1 =>
                        /\ sweep[rank + 1] = sweep[rank]
                        /\ Row(rank, rank_num_points(rank) + 1)
                              = Row(rank + 1, 1)
                  /\ rank > 0 =>
                        /\ sweep[rank - 1] = sweep[rank]
                        /\ Row(rank, 0)
                              = Row(rank - 1, rank_num_points(rank - 1))

\* The largest absolute change of the sweep over the points the rank owns.
OwnedDelta(rank) ==
    MaxOf({0} \cup {fabs(u[rank][i] - u_old[rank][i]) : i \in 1 .. Owned(rank)})

\* Every rank has contributed the local delta of the same sweep and none
\* has gone on: u and u_old of every rank are those of that sweep.
SameSweepReduced ==
    \A r \in Ranks :
        /\ pc[r] \in {"reduce_wait", "branch"}
        /\ sweep[r] = sweep[0]

\* C15: the global delta a rank obtains from the all-reduce of a sweep is
\* the same on all ranks and is the maximum, over all ranks, of the largest
\* absolute change |u - u_old| over exactly the points that rank owns.
C15_GlobalDeltaOverOwnedPoints ==
    (variant = "1D" /\ SameSweepReduced) =>
        \A r \in Ranks :
            pc[r] = "branch" =>
                /\ du_max[r] = MaxOf({OwnedDelta(s) : s \in Ranks})
                /\ \A s \in Ranks : pc[s] = "branch" => du_max[s] = du_max[r]

\* C16: the kernel of the 1D solver writes only owned points of u: a
\* kernel step of a rank, also of a last rank that owns fewer than
\* points_per_proc points, changes no cell of u outside 1 .. Owned(rank),
\* and no cell of u_old.
C16_KernelWritesOwnedOnly ==
    [][variant = "1D" =>
          \A rank \in Ranks :
              (pc[rank] = "kernel" /\ pc'[rank] = "allreduce") =>
                  /\ \A i \in Cells :
                        u'[rank][i] # u[rank][i] => (i >= 1 /\ i <= Owned(rank))
                  /\ u_old'[rank] = u_old[rank]]_vars

Terminal == {"failed", "done"}

\* C17: under fair scheduling and reliable delivery every rank of the 1D
\* solver eventually reaches a terminal state, the converged exit or the
\* non-convergence exit, and stays there; no rank is left blocked in a
\* receive or in the all-reduce.
C17_EveryRankTerminates ==
    <>[](variant = "1D" => \A rank \in Ranks : pc[rank] \in Terminal)

\* Some rank's computed range is empty: start_index > end_index.
EmptyRange == \E rank \in Ranks : start_index(rank) > end_index(rank)

\* The global delta the ranks that own points give among themselves.
OwnersDelta ==
    MaxOf({0} \cup {du_max_proc[s] : s \in {r \in Ranks : Owned(r) >= 1}})

\* C18: when some rank's range is empty, that rank takes part in every
\* sweep like the others, so that no rank is left in a receive whose
\* message cannot arrive and no rank is in a sweep that another rank left
\* the loop before; and the global delta of a sweep is the one the ranks
\* that own points give: the local delta of the empty rank does not change
\* it.
C18_EmptyRangeHarmless ==
    (variant = "1D" /\ EmptyRange) =>
        /\ \A rank \in Ranks : ~Stuck(rank)
        /\ \A r \in Ranks, s \in Ranks :
              pc[r] \in LeftLoop => sweep[s] <= sweep[r]
        /\ SameSweepReduced =>
              \A r \in Ranks : pc[r] = "branch" => du_max[r] = OwnersDelta

\* C19: every index a rank of the 1D solver applies to u, u_old and f, in
\* the initialisation loop, the boundary assignments, the exchange, the
\* copy loop and the kernel loop, lies in the allocated range
\* 0 .. points_per_proc + 1, and the cell of every owned point was assigned
\* by the initialisation loop.
C19_IndicesInBounds ==
    variant = "1D" =>
        \A rank \in Ranks :
            /\ InitIndices(rank) \subseteq Cells
            /\ BoundaryIndices(rank) \subseteq Cells
            /\ ExchangeIndices(rank) \subseteq Cells
            /\ CopyIndices \subseteq Cells
            /\ KernelIndices \subseteq Cells
            /\ 1 .. Owned(rank) \subseteq InitIndices(rank)

\* The messages of the channel from src to dst with tag, posted or
\* transferred.
Channel(src, dst, tag) ==
    {m \in pending : m.src = src /\ m.dst = dst /\ m.tag = tag}
        \cup {m \in mailbox : m.src = src /\ m.dst = dst /\ m.tag = tag}

\* The step of the rank whose receive takes message m.
Takes(m) ==
    \/ pc[m.dst] = "recv_right" /\ m.src = m.dst + 1 /\ m.tag = 1
    \/ pc[m.dst] = "recv_left" /\ m.src = m.dst - 1 /\ m.tag = 2

\* No message is addressed to a rank that has left the loop.
NoneLeftBehind ==
    \A m \in pending \cup mailbox : pc[m.dst] \notin LeftLoop

\* C20: in the 1D solver every channel (sender, receiver, tag) holds at
\* most one message not yet received; a receive of sweep k takes the
\* message its neighbour sent in its sweep k, from the direction the
\* receive names; and no message is left, posted or transferred, for a
\* rank that has left the loop.
C20_OneMessagePerChannel ==
    /\ [](variant = "1D" =>
            /\ \A m \in pending \cup mailbox :
                  Cardinality(Channel(m.src, m.dst, m.tag)) <= 1
            /\ NoneLeftBehind)
    /\ [][variant = "1D" =>
            \A m \in mailbox :
                m \notin mailbox' => (Takes(m) /\ m.sw = sweep[m.dst])]_vars

=============================================================================
